---- MODULE Spec2Model ----
(***************************************************************************)
(* React Native event processor with offline caching                       *)
(*   packages/event-processor/src/reactNativeEventsStore.ts                *)
(*   packages/event-processor/src/v1/v1EventProcessor.react_native.ts      *)
(*                                                                         *)
(* Execution model: one JavaScript thread.  An action is one macrotask (an  *)
(* API call, a timer, a storage or network completion, a connectivity      *)
(* observation): its handler runs, and then the microtasks it queued (the  *)
(* continuations of awaits, kept in mq) run in FIFO order until none is    *)
(* left.  Calls made one after the other in one run of the caller's code   *)
(* reach the same state as the same calls made in macrotasks of their own, *)
(* because the first microtask of a store operation only issues its        *)
(* storage request.  Storage requests in flight complete in any order and  *)
(* take effect when they complete.                                         *)
(***************************************************************************)
EXTENDS Integers, Sequences, FiniteSets, TLC

\* ---------------------------------------------------------------- bounds
maxSize == 2            \* capacity handed to the stores (maxQueueSize)
MaxOps == 3             \* store operations in progress at one time
MaxCalls == maxSize + 1 \* client calls issued in the store specification
batchSize == 2          \* events that make the queue flush at once
MaxEvents == 2          \* events the application produces
MaxKills == 1           \* process kills followed by a new lifetime
MaxWaiters == 2         \* processPendingEvents() calls awaiting one pass
MaxTasks == 5           \* getLock() calls issued in the lock specification
Keys == 1..(maxSize + 1)
\* Stored values are strings or objects, written as sequences: "" (the empty
\* sequence) is the falsy one, a formatted batch is the sequence of its events.
Vals == {<<>>, <<1>>}

EmptyMap == [k \in {} |-> 0]
\* What AsyncStorage holds under a storage key: nothing, or a blob.
Absent == [has |-> FALSE, v |-> <<>>]
Stored(x) == [has |-> TRUE, v |-> x]
Undefined == <<"undefined">>
NoOwner == <<"none">>

VARIABLES
  cache,          \* AsyncStorage: one blob per store class
  lockPromises,   \* Synchronizer.lockPromises of each store
  ops,            \* store operations in progress (async calls on a store)
  calls,          \* history of the client calls of the store specification
  queue,          \* the EventQueue: buffer, started, flush cycle open
  unsubscribeNetInfo,    \* TRUE while subscribed to connectivity changes
  isInternetReachable,   \* last-known reachability
  pendingEventsPromise,  \* 0 (null) or the pass whose promise it holds
  passes,         \* getPendingEventsPromise() calls in progress
  drain,          \* the drainQueue() call of the open flush cycle
  startTask,      \* the start() call
  requests,       \* dispatches tracked by the requestTracker
  stopPromise,    \* the promise returned by stop()
  uuid,           \* generateUUID(): the number of keys handed out
  nextEvent,      \* the next event the application produces
  lifetime,       \* process kills so far
  hist            \* history: what was accepted, persisted, delivered, observed

vars == <<cache, lockPromises, ops, calls, queue, unsubscribeNetInfo,
          isInternetReachable, pendingEventsPromise, passes, drain, startTask,
          requests, stopPromise, uuid, nextEvent, lifetime, hist>>

\* The in-memory and persisted state as one value, so that the synchronous
\* part of a handler can be written as a composition of its calls.
Cur == [cache |-> cache, lockPromises |-> lockPromises, ops |-> ops,
        mq |-> <<>>, calls |-> calls, queue |-> queue,
        unsubscribeNetInfo |-> unsubscribeNetInfo,
        isInternetReachable |-> isInternetReachable,
        pendingEventsPromise |-> pendingEventsPromise, passes |-> passes,
        drain |-> drain, startTask |-> startTask, requests |-> requests,
        stopPromise |-> stopPromise, uuid |-> uuid, nextEvent |-> nextEvent,
        lifetime |-> lifetime, hist |-> hist]

Apply(s) ==
  /\ cache' = s.cache
  /\ lockPromises' = s.lockPromises
  /\ ops' = s.ops
  /\ calls' = s.calls
  /\ queue' = s.queue
  /\ unsubscribeNetInfo' = s.unsubscribeNetInfo
  /\ isInternetReachable' = s.isInternetReachable
  /\ pendingEventsPromise' = s.pendingEventsPromise
  /\ passes' = s.passes
  /\ drain' = s.drain
  /\ startTask' = s.startTask
  /\ requests' = s.requests
  /\ stopPromise' = s.stopPromise
  /\ uuid' = s.uuid
  /\ nextEvent' = s.nextEvent
  /\ lifetime' = s.lifetime
  /\ hist' = s.hist

\* ------------------------------------------------------------ JS helpers
Truthy(v) == v # <<>>

\* `await this.cache.get(this.storageKey) || {}`
OrEmptyMap(b) == IF b.has THEN b.v ELSE EmptyMap
\* `(await this.cache.get(this.storageKey) || [])`
OrEmptyList(b) == IF b.has THEN b.v ELSE <<>>

MapSet(m, k, v) == [x \in DOMAIN m \cup {k} |-> IF x = k THEN v ELSE m[x]]
MapDelete(m, k) == [x \in DOMAIN m \ {k} |-> m[x]]
\* objectValues(eventsMap), in key order
RECURSIVE ValuesOf(_, _)
ValuesOf(m, ks) ==
  IF ks = {} THEN <<>>
  ELSE LET k == CHOOSE x \in ks : \A y \in ks : x <= y
       IN <<m[k]>> \o ValuesOf(m, ks \ {k})
objectValues(m) == ValuesOf(m, DOMAIN m)

Locked(kind) == kind \in {"set", "remove", "get", "getAllEvents", "add"}
ClassOf(kind) == IF kind \in {"add", "getAll", "clear"} THEN "buffer" ELSE "pending"

\* The smallest number that names no member of ids.
Fresh(ids) == CHOOSE i \in 1..(Cardinality(ids) + 1) : i \notin ids /\ \A j \in 1..(i - 1) : j \in ids
\* An operation is named by the caller that awaits it (a caller awaits one
\* operation at a time), a detached one by a number.
NewOpId(s, owner) ==
  IF owner = NoOwner
  THEN <<"d", Fresh({i \in 1..Cardinality(DOMAIN s.ops) : <<"d", i>> \in DOMAIN s.ops})>>
  ELSE owner

SetOp(s, id, r) == [s EXCEPT !.ops = [x \in DOMAIN s.ops \cup {id} |-> IF x = id THEN r ELSE s.ops[x]]]
DelOp(s, id) == [s EXCEPT !.ops = [x \in DOMAIN s.ops \ {id} |-> s.ops[x]]]
Push(s, tok) == [s EXCEPT !.mq = Append(@, tok)]

\* ------------------------------------------------------------ Synchronizer
\* getLock(): push a new ResolvablePromise (named by the operation that
\* made it); the only entry proceeds, any other awaits the promise before
\* its own.
GetLockImmediate(s, id) ==
  LET c == s.ops[id].cls
      q == Append(s.lockPromises[c], id)
      s1 == [s EXCEPT !.lockPromises[c] = q]
  IN Push([s1 EXCEPT !.ops[id].pc = "locked"], <<"op", id>>)

GetLockAwaitsFirst(s, id) ==
  LET c == s.ops[id].cls
      q == Append(s.lockPromises[c], id)
      s1 == [s EXCEPT !.lockPromises[c] = q]
  IN IF Len(q) = 1
     THEN Push([s1 EXCEPT !.ops[id].pc = "locked"], <<"op", id>>)
     ELSE [s1 EXCEPT !.ops[id].pc = "lock", !.ops[id].waitsOn = q[1]]

GetLock(s, id) ==
  LET c == s.ops[id].cls
      q == Append(s.lockPromises[c], id)
      s1 == [s EXCEPT !.lockPromises[c] = q]
  IN IF Len(q) = 1
     THEN Push([s1 EXCEPT !.ops[id].pc = "locked"], <<"op", id>>)
     ELSE [s1 EXCEPT !.ops[id].pc = "lock", !.ops[id].waitsOn = q[Len(q) - 1]]

\* ResolvablePromise.resolve(): the operations awaiting promise p resume.
RECURSIVE Wake(_, _)
Wake(s, ids) ==
  IF ids = {} THEN s
  ELSE LET i == CHOOSE x \in ids : TRUE
       IN Wake(Push([s EXCEPT !.ops[i].pc = "locked", !.ops[i].waitsOn = NoOwner], <<"op", i>>),
               ids \ {i})

Resolve(s, c, p) ==
  Wake(s, {i \in DOMAIN s.ops : s.ops[i].cls = c /\ s.ops[i].pc = "lock" /\ s.ops[i].waitsOn = p})

ReleaseLockPop(s, c) ==
  IF Len(s.lockPromises[c]) > 0
  THEN Resolve([s EXCEPT !.lockPromises[c] = SubSeq(@, 1, Len(@) - 1)], c,
               s.lockPromises[c][Len(s.lockPromises[c])])
  ELSE s

\* releaseLock(): shift the first promise and resolve it.
ReleaseLock(s, c) ==
  IF Len(s.lockPromises[c]) > 0
  THEN Resolve([s EXCEPT !.lockPromises[c] = Tail(@)], c, Head(s.lockPromises[c]))
  ELSE s

\* ------------------------------------------------- store operations (async)
\* An operation in progress: the store class, the method, its arguments, where
\* it is suspended, the promise it awaits in getLock, the eventsMap it read
\* (read) and its local copy (map), and who awaits its result.
NewOp(kind, key, val, owner) ==
  [cls |-> ClassOf(kind), kind |-> kind, key |-> key, val |-> val, pc |-> "new",
   waitsOn |-> NoOwner, read |-> EmptyMap, map |-> EmptyMap, owner |-> owner,
   ret |-> Undefined]

\* The async function returns: a client call is recorded as completed, any
\* other awaiting caller gets its continuation queued as a microtask.
Return(s, id, result) ==
  LET o == s.ops[id] IN
  IF o.owner = NoOwner THEN DelOp(s, id)
  ELSE IF o.owner[1] = "client"
  THEN DelOp([s EXCEPT !.calls[o.owner[2]] =
                [@ EXCEPT !.done = TRUE, !.ret = result, !.read = o.read,
                          !.post = OrEmptyMap(s.cache.pending)]], id)
  ELSE Push([s EXCEPT !.ops[id].pc = "ret", !.ops[id].ret = result], o.owner)

\* The call itself, up to its first await.
StartOp(s, kind, key, val, owner) ==
  IF kind = "clear"
  \* clear(): cache.remove is called and not awaited; the function returns
  THEN LET s1 == SetOp(s, NewOpId(s, NoOwner),
                       [NewOp(kind, key, val, NoOwner) EXCEPT !.pc = "rm"])
       IN IF owner = NoOwner THEN s1 ELSE Push(s1, owner)
  ELSE LET id == NewOpId(s, owner)
           s1 == SetOp(s, id, NewOp(kind, key, val, owner))
       IN IF Locked(kind) THEN GetLock(s1, id)
          \* getEventsMap(), getAll(): cache.get without the lock
          ELSE [s1 EXCEPT !.ops[id].pc = "get"]

\* ReactNativePendingEventsStore.set after `await this.cache.get(...) || {}`
SetStoresAtCapacity(s, id) ==
  LET o == s.ops[id] IN
  IF Cardinality(DOMAIN o.map) <= maxSize
  THEN [s EXCEPT !.ops[id].map = MapSet(o.map, o.key, o.val), !.ops[id].pc = "put"]
  ELSE Return(ReleaseLock(s, o.cls), id, <<"string", o.key>>)

SetAfterGet(s, id) ==
  LET o == s.ops[id] IN
  IF Cardinality(DOMAIN o.map) < maxSize
  THEN [s EXCEPT !.ops[id].map = MapSet(o.map, o.key, o.val), !.ops[id].pc = "put"]
  ELSE Return(ReleaseLock(s, o.cls), id, <<"string", o.key>>)

\* ReactNativePendingEventsStore.remove after the read:
\* `eventsMap[key] && delete eventsMap[key]`, then cache.set
RemoveAfterGet(s, id) ==
  LET o == s.ops[id]
      m == IF o.key \in DOMAIN o.map /\ Truthy(o.map[o.key])
           THEN MapDelete(o.map, o.key) ELSE o.map
  IN [s EXCEPT !.ops[id].map = m, !.ops[id].pc = "put"]

\* The continuation of an operation, run as a microtask.
RunOp(s, id) ==
  LET o == s.ops[id] IN
  CASE o.pc = "locked" -> [s EXCEPT !.ops[id].pc = "get"]
    [] o.pc = "gotten" /\ o.kind = "set" -> SetAfterGet(s, id)
    [] o.pc = "gotten" /\ o.kind = "remove" -> RemoveAfterGet(s, id)
    [] o.pc = "gotten" /\ o.kind = "get" ->
         Return(ReleaseLock(s, o.cls), id,
                IF o.key \in DOMAIN o.map THEN <<"value", o.map[o.key]>> ELSE Undefined)
    [] o.pc = "gotten" /\ o.kind = "getAllEvents" ->
         Return(ReleaseLock(s, o.cls), id, <<"list", objectValues(o.map)>>)
    [] o.pc = "gotten" /\ o.kind = "getEventsMap" -> Return(s, id, <<"map", o.map>>)
    [] o.pc = "gotten" /\ o.kind = "add" ->
         [s EXCEPT !.ops[id].map = Append(o.map, o.val), !.ops[id].pc = "put"]
    [] o.pc = "gotten" /\ o.kind = "getAll" -> Return(s, id, <<"list", o.map>>)
    [] o.pc = "putdone" /\ o.kind = "set" ->
         Return(ReleaseLock(s, o.cls), id, <<"string", o.key>>)
    [] o.pc = "putdone" /\ o.kind # "set" -> Return(ReleaseLock(s, o.cls), id, Undefined)

\* A request to AsyncStorage completes: it takes effect and the awaiting
\* operation's continuation is queued.
Complete(s, id) ==
  LET o == s.ops[id] IN
  CASE o.pc = "get" ->
         LET b == IF o.cls = "pending" THEN OrEmptyMap(s.cache.pending)
                  ELSE OrEmptyList(s.cache.buffer)
         IN Push([s EXCEPT !.ops[id].pc = "gotten", !.ops[id].read = b, !.ops[id].map = b],
                 <<"op", id>>)
    [] o.pc = "put" ->
         LET s1 == IF o.kind = "add" THEN [s EXCEPT !.hist.persisted = @ \cup {o.val}] ELSE s
         IN Push([s1 EXCEPT !.cache[o.cls] = Stored(o.map), !.ops[id].pc = "putdone"],
                 <<"op", id>>)
    [] o.pc = "rm" -> DelOp([s EXCEPT !.cache[o.cls] = Absent], id)

\* The state after construction, with nothing stored.
Idle == [pc |-> "idle", buffer |-> <<>>, key |-> 0, event |-> <<>>]
NoHist == [accepted |-> {}, persisted |-> {}, delivered |-> {},
           stopBuffer |-> <<>>, recovered |-> <<>>]

Init ==
  /\ cache = [pending |-> Absent, buffer |-> Absent]
  /\ lockPromises = [pending |-> <<>>, buffer |-> <<>>]
  /\ ops = EmptyMap
  /\ calls = <<>>
  /\ queue = [buffer |-> <<>>, started |-> FALSE, flushing |-> FALSE]
  /\ unsubscribeNetInfo = FALSE
  /\ isInternetReachable = TRUE
  /\ pendingEventsPromise = 0
  /\ passes = EmptyMap
  /\ drain = Idle
  /\ startTask = [pc |-> "new"]
  /\ requests = EmptyMap
  /\ stopPromise = "none"
  /\ uuid = 0
  /\ nextEvent = 1
  /\ lifetime = 0
  /\ hist = NoHist

\* =========================================================== the processor
NetStates == {"reachable", "unreachable", "unknown"}  \* true, false, null
Statuses == {199, 200, 399, 400, 500}

\* formatEvents(buffer): the batch that holds the events of the buffer
formatEvents(buffer) == buffer
\* objectEntries(formattedEvents): the [key, event] pairs in insertion order,
\* which for keys handed out by generateUUID is the order of the keys
RECURSIVE EntriesOf(_, _)
EntriesOf(m, ks) ==
  IF ks = {} THEN <<>>
  ELSE LET k == CHOOSE x \in ks : \A y \in ks : x <= y
       IN <<<<k, m[k]>>>> \o EntriesOf(m, ks \ {k})
objectEntries(m) == EntriesOf(m, DOMAIN m)

Range(q) == {q[i] : i \in DOMAIN q}
\* The operation whose result the caller `owner` is resuming with.
RetOp(s, owner) == CHOOSE id \in DOMAIN s.ops : s.ops[id].owner = owner /\ s.ops[id].pc = "ret"

SetIn(f, id, r) == [x \in DOMAIN f \cup {id} |-> IF x = id THEN r ELSE f[x]]
DelIn(f, id) == [x \in DOMAIN f \ {id} |-> f[x]]

\* isSuccessResponse(status)
isSuccessFrom200Up(status) == status >= 200
isSuccessResponse(status) == status >= 200 /\ status < 400

\* dispatchEvent(eventCacheKey, event): hand the event to the dispatcher and
\* track the request promise; `owner` is the caller awaiting it.
dispatchEvent(s, eventCacheKey, event, owner) ==
  LET r == owner
  IN [s EXCEPT !.requests = SetIn(@, r, [key |-> eventCacheKey, event |-> event,
                                          owner |-> owner, pc |-> "sent"])]

\* resolve() of the request promise: the tracker forgets the request, the
\* awaiting caller resumes, and onRequestsComplete() resolves when nothing
\* is in flight any more.
ResolveRequest(s, r) ==
  LET s1 == Push([s EXCEPT !.requests = DelIn(@, r)], s.requests[r].owner)
  IN IF s1.stopPromise = "pending" /\ DOMAIN s1.requests = {}
     THEN [s1 EXCEPT !.stopPromise = "resolved"] ELSE s1

DispatcherCallbackResolvesFirst(s, r, statusCode) ==
  IF isSuccessResponse(statusCode)
  THEN LET s1 == [s EXCEPT !.hist.delivered = @ \cup Range(s.requests[r].event)]
       IN ResolveRequest(StartOp(s1, "remove", s.requests[r].key, <<>>, NoOwner), r)
  ELSE ResolveRequest(s, r)

\* The dispatcher's callback with the response's status code.
DispatcherCallback(s, r, statusCode) ==
  IF isSuccessResponse(statusCode)
  THEN LET s1 == [s EXCEPT !.requests[r].pc = "removing",
                           !.hist.delivered = @ \cup Range(s.requests[r].event)]
       IN StartOp(s1, "remove", s.requests[r].key, <<>>, <<"cb", r>>)
  ELSE ResolveRequest(s, r)

\* The callback after `await this.pendingEventsStore.remove(eventCacheKey)`
RunCallback(s, r) == ResolveRequest(DelOp(s, RetOp(s, <<"cb", r>>)), r)

\* getPendingEventsPromise(), as pass p, up to its first await
getPendingEventsPromise(s, p) ==
  LET s1 == [s EXCEPT !.passes = SetIn(@, p, [pc |-> "get", entries |-> <<>>, i |-> 0,
                                               waiters |-> <<>>])]
  IN StartOp(s1, "getEventsMap", 0, <<>>, <<"pass", p>>)

\* The pass promise resolves: the calls awaiting it resume in the order in
\* which they began to wait.
RECURSIVE PushAll(_, _)
PushAll(s, toks) == IF toks = <<>> THEN s ELSE PushAll(Push(s, Head(toks)), Tail(toks))
PassDone(s, p) ==
  PushAll([s EXCEPT !.passes = DelIn(@, p)],
          [i \in DOMAIN s.passes[p].waiters |-> <<"ppe", s.passes[p].waiters[i]>>])

\* The for loop of the pass: dispatch the next entry, or finish.
PassLoop(s, p) ==
  LET ps == s.passes[p] IN
  IF ps.i > Len(ps.entries) THEN PassDone(s, p)
  ELSE dispatchEvent([s EXCEPT !.passes[p].pc = "dispatch"],
                     ps.entries[ps.i][1], ps.entries[ps.i][2], <<"pass", p>>)

RunPass(s, p) ==
  IF s.passes[p].pc = "get"
  THEN LET id == RetOp(s, <<"pass", p>>)
           s1 == [DelOp(s, id) EXCEPT !.passes[p].entries = objectEntries(s.ops[id].ret[2]),
                                      !.passes[p].i = 1]
       IN PassLoop(s1, p)
  ELSE PassLoop([s EXCEPT !.passes[p].i = @ + 1], p)

\* processPendingEvents(), called by `who`, up to its await
NewPassId(s) == Fresh(DOMAIN s.passes \cup {s.pendingEventsPromise})
AwaitPass(s, who) ==
  IF s.pendingEventsPromise \in DOMAIN s.passes
  THEN [s EXCEPT !.passes[s.pendingEventsPromise].waiters = Append(@, who)]
  ELSE Push(s, <<"ppe", who>>)

processPendingEventsAlwaysStarts(s, who) ==
  LET p == NewPassId(s)
  IN AwaitPass([getPendingEventsPromise(s, p) EXCEPT !.pendingEventsPromise = p], who)

processPendingEvents(s, who) ==
  IF s.pendingEventsPromise = 0
  THEN LET p == NewPassId(s)
       IN AwaitPass([getPendingEventsPromise(s, p) EXCEPT !.pendingEventsPromise = p], who)
  ELSE AwaitPass(s, who)

RunProcessPendingEventsKeepsMarker(s, who) ==
  IF who = "listener" THEN s ELSE Push(s, <<who>>)

\* processPendingEvents() after `await this.pendingEventsPromise`
RunProcessPendingEvents(s, who) ==
  LET s1 == [s EXCEPT !.pendingEventsPromise = 0]
  IN IF who = "listener" THEN s1 ELSE Push(s1, <<who>>)

\* drainQueue(buffer), up to its first await
drainQueue(s, buffer) ==
  processPendingEvents([s EXCEPT !.drain = [Idle EXCEPT !.pc = "ppe", !.buffer = buffer]],
                       "drain")

\* drainQueue resumes after an await.
RunDrain(s) ==
  LET d == s.drain IN
  CASE d.pc = "ppe" ->
         IF Len(d.buffer) = 0
         THEN [s EXCEPT !.drain.pc = "idle", !.queue.flushing = FALSE]
         ELSE LET eventCacheKey == s.uuid + 1
                  formattedEvent == formatEvents(d.buffer)
                  s1 == [s EXCEPT !.uuid = eventCacheKey, !.drain.pc = "set",
                                  !.drain.key = eventCacheKey,
                                  !.drain.event = formattedEvent]
              IN StartOp(s1, "set", eventCacheKey, formattedEvent, <<"drain">>)
    [] d.pc = "set" ->
         LET s1 == [DelOp(s, RetOp(s, <<"drain">>)) EXCEPT !.drain.pc = "clear"]
         IN StartOp(s1, "clear", 0, <<>>, <<"drain">>)
    [] d.pc = "clear" ->
         dispatchEvent([s EXCEPT !.drain.pc = "dispatch"], d.key, d.event, <<"drain">>)
    [] d.pc = "dispatch" ->
         [s EXCEPT !.drain.pc = "idle", !.queue.flushing = FALSE]

\* EventQueue.flush(): take the buffer and hand it to the sink, drainQueue;
\* the flush cycle stays open until drainQueue's promise resolves.
Flush(s) ==
  drainQueue([s EXCEPT !.queue.buffer = <<>>, !.queue.flushing = TRUE], s.queue.buffer)

\* EventQueue.enqueue(event)
enqueue(s, event) ==
  LET s1 == [s EXCEPT !.queue.buffer = Append(@, event)]
  IN IF Len(s1.queue.buffer) >= batchSize /\ ~s1.queue.flushing THEN Flush(s1) ELSE s1

\* process(event)
process(s, event) ==
  LET s1 == StartOp(s, "add", 0, event, NoOwner)
  IN enqueue(s1, event)

RECURSIVE ProcessAll(_, _)
ProcessAll(s, events) ==
  IF events = <<>> THEN s ELSE ProcessAll(process(s, Head(events)), Tail(events))

\* start(), up to its first await
start(s) ==
  processPendingEvents([s EXCEPT !.queue.started = TRUE, !.unsubscribeNetInfo = TRUE,
                                 !.startTask.pc = "ppe"], "start")

\* start() resumes after an await.
RunStart(s) ==
  IF s.startTask.pc = "ppe"
  THEN LET s1 == [s EXCEPT !.startTask.pc = "list"]
       IN StartOp(s1, "getAll", 0, <<>>, <<"start">>)
  ELSE LET id == RetOp(s, <<"start">>)
           events == s.ops[id].ret[2]
           s1 == [DelOp(s, id) EXCEPT !.startTask.pc = "done", !.hist.recovered = events]
       IN ProcessAll(s1, events)

\* connectionListener(state)
connectionListenerOnEveryReachable(s, state) ==
  IF s.isInternetReachable /\ state # "reachable"
  THEN [s EXCEPT !.isInternetReachable = FALSE]
  ELSE IF state = "reachable"
  THEN processPendingEvents([s EXCEPT !.isInternetReachable = TRUE], "listener")
  ELSE s

connectionListener(s, state) ==
  IF s.isInternetReachable /\ state # "reachable"
  THEN [s EXCEPT !.isInternetReachable = FALSE]
  ELSE IF ~s.isInternetReachable /\ state = "reachable"
  THEN processPendingEvents([s EXCEPT !.isInternetReachable = TRUE], "listener")
  ELSE s

\* stop(): unsubscribe, stop the queue (one last flush), and return the
\* tracker's promise, resolved at once when no request is in flight.
stop(s) ==
  LET s1 == Flush([s EXCEPT !.unsubscribeNetInfo = FALSE, !.queue.started = FALSE,
                            !.hist.stopBuffer = s.queue.buffer])
  IN [s1 EXCEPT !.stopPromise = IF DOMAIN s1.requests = {} THEN "resolved" ELSE "pending"]

\* One microtask: the continuation named by the token.
RunMicrotask(s, tok) ==
  CASE tok[1] = "op" -> RunOp(s, tok[2])
    [] tok[1] = "cb" -> RunCallback(s, tok[2])
    [] tok[1] = "pass" -> RunPass(s, tok[2])
    [] tok[1] = "ppe" -> RunProcessPendingEvents(s, tok[2])
    [] tok[1] = "drain" -> RunDrain(s)
    [] tok[1] = "start" -> RunStart(s)

\* Run the queued microtasks, first in first out, until none is left.
RECURSIVE RunMicrotasks(_)
RunMicrotasks(s) ==
  IF s.mq = <<>> THEN s
  ELSE RunMicrotasks(RunMicrotask([s EXCEPT !.mq = Tail(@)], Head(s.mq)))

TotalWaiters(s) ==
  LET RECURSIVE Sum(_)
      Sum(ps) == IF ps = {} THEN 0
                 ELSE LET p == CHOOSE x \in ps : TRUE
                      IN Len(s.passes[p].waiters) + Sum(ps \ {p})
  IN Sum(DOMAIN s.passes) + Cardinality({i \in DOMAIN s.mq : s.mq[i][1] = "ppe"})

\* ------------------------------------------------------------- actions
IoComplete(id) ==
  /\ id \in DOMAIN ops
  /\ ops[id].pc \in {"get", "put", "rm"}
  /\ Apply(RunMicrotasks(Complete(Cur, id)))

\* A client of the pending store calls one of its methods.
NewCall(kind, key, val, overlap) ==
  [kind |-> kind, key |-> key, val |-> val, overlap |-> overlap,
   done |-> FALSE, ret |-> Undefined, read |-> EmptyMap, post |-> EmptyMap]

ClientCall(kind, key, val) ==
  /\ Len(calls) < MaxCalls
  /\ Cardinality(DOMAIN ops) < MaxOps
  /\ LET s1 == [Cur EXCEPT !.calls = Append(@, NewCall(kind, key, val, DOMAIN ops # {}))]
     IN Apply(RunMicrotasks(StartOp(s1, kind, key, val, <<"client", Len(calls) + 1>>)))

ClientSet == \E k \in Keys, v \in Vals : ClientCall("set", k, v)
ClientRemove == \E k \in Keys : ClientCall("remove", k, <<>>)
ClientGet == \E k \in Keys : ClientCall("get", k, <<>>)
ClientGetAllEvents == ClientCall("getAllEvents", 0, <<>>)
ClientGetEventsMap == ClientCall("getEventsMap", 0, <<>>)

InitStore == Init

NextStore ==
  \/ ClientSet
  \/ ClientRemove
  \/ ClientGet
  \/ ClientGetAllEvents
  \/ ClientGetEventsMap
  \/ \E id \in DOMAIN ops : IoComplete(id)

SpecStore == InitStore /\ [][NextStore]_vars

\* ------------------------------------------------- the Synchronizer alone
\* Tasks that use one Synchronizer: each awaits getLock(), runs on after it
\* returned, and calls releaseLock() once.  The resumption of a task whose
\* getLock() has returned is a step of its own (pc "locked" until then), so
\* that calls of other tasks can come between a release and the resumption
\* of the task it woke.  A task is named by the number of its getLock()
\* call; its call record notes (key = 1) that it called while a woken task
\* had not resumed yet.
TaskId(i) == <<"task", i>>
TaskGetLock ==
  /\ Len(calls) < MaxTasks
  /\ Cardinality(DOMAIN ops) < MaxOps
  /\ LET id == TaskId(Len(calls) + 1)
         between == IF \E a \in DOMAIN ops : ops[a].pc = "locked" THEN 1 ELSE 0
         s1 == [Cur EXCEPT !.calls = Append(@, NewCall("getLock", between, <<>>, DOMAIN ops # {}))]
     IN Apply(GetLock(SetOp(s1, id, NewOp("getLock", 0, <<>>, id)), id))

TaskResume ==
  \E id \in DOMAIN ops :
     /\ ops[id].pc = "locked"
     /\ Apply([Cur EXCEPT !.ops[id].pc = "held"])

TaskRelease ==
  \E id \in DOMAIN ops :
     /\ ops[id].pc = "held"
     /\ Apply(DelOp(ReleaseLock(Cur, ops[id].cls), id))

NextLock ==
  \/ TaskGetLock
  \/ TaskResume
  \/ TaskRelease

SpecLock == InitStore /\ [][NextLock]_vars

\* Every task that was granted the lock goes on to release it.
SpecLockFair == SpecLock /\ WF_vars(TaskResume) /\ WF_vars(TaskRelease)

\* ------------------------------------------------------- processor actions
Start ==
  /\ startTask.pc = "new"
  /\ Apply(RunMicrotasks(start(Cur)))

\* The application produces its next event and hands it to process().
Process ==
  /\ startTask.pc = "done"
  /\ stopPromise = "none"
  /\ nextEvent <= MaxEvents
  /\ Cardinality(DOMAIN ops) < MaxOps
  /\ LET under == /\ Len(OrEmptyList(cache.buffer)) < maxSize
                  /\ Cardinality(DOMAIN OrEmptyMap(cache.pending)) < maxSize
         s1 == [Cur EXCEPT !.nextEvent = @ + 1,
                           !.hist.accepted = IF under THEN @ \cup {nextEvent} ELSE @]
     IN Apply(RunMicrotasks(process(s1, nextEvent)))

\* The queue's timer fires.
TimerFlush ==
  /\ queue.started
  /\ queue.buffer # <<>>
  /\ ~queue.flushing
  /\ Apply(RunMicrotasks(Flush(Cur)))

\* The connectivity monitor reports an observation.
Connectivity ==
  /\ unsubscribeNetInfo
  /\ TotalWaiters(Cur) < MaxWaiters
  /\ \E state \in NetStates : Apply(RunMicrotasks(connectionListener(Cur, state)))

Stop ==
  /\ queue.started
  /\ ~queue.flushing
  /\ Apply(RunMicrotasks(stop(Cur)))

\* The dispatcher answers a request.
DispatchResponse ==
  /\ \E r \in DOMAIN requests, statusCode \in Statuses :
       /\ requests[r].pc = "sent"
       /\ Apply(RunMicrotasks(DispatcherCallback(Cur, r, statusCode)))

\* The process is killed and a new one constructs the processor: what is in
\* memory is gone, what AsyncStorage holds stays.
Kill ==
  /\ lifetime < MaxKills
  /\ startTask.pc # "new"
  /\ lockPromises' = [pending |-> <<>>, buffer |-> <<>>]
  /\ ops' = EmptyMap
  /\ queue' = [buffer |-> <<>>, started |-> FALSE, flushing |-> FALSE]
  /\ unsubscribeNetInfo' = FALSE
  /\ isInternetReachable' = TRUE
  /\ pendingEventsPromise' = 0
  /\ passes' = EmptyMap
  /\ drain' = Idle
  /\ startTask' = [pc |-> "new"]
  /\ requests' = EmptyMap
  /\ stopPromise' = "none"
  /\ lifetime' = lifetime + 1
  /\ hist' = [hist EXCEPT !.stopBuffer = <<>>, !.recovered = <<>>]
  /\ UNCHANGED <<cache, calls, uuid, nextEvent>>

Next ==
  \/ Start
  \/ Process
  \/ TimerFlush
  \/ Connectivity
  \/ Stop
  \/ DispatchResponse
  \/ \E id \in DOMAIN ops : IoComplete(id)

Spec == Init /\ [][Next]_vars

\* The same processor in a process that may be killed and started again.
NextCrash ==
  \/ Next
  \/ Kill

SpecCrash == Init /\ [][NextCrash]_vars

\* ---------------------------------------------------- store properties
PendingMap == OrEmptyMap(cache.pending)
SetCalls == {i \in DOMAIN calls : calls[i].kind = "set"}
AllDone == \A i \in DOMAIN calls : calls[i].done
OnlyDistinctSets ==
  /\ SetCalls = DOMAIN calls
  /\ \A i, j \in DOMAIN calls : i # j => calls[i].key # calls[j].key
\* Some operation in progress can take a step.
CanProgress == \E id \in DOMAIN ops : ops[id].pc \in {"get", "put", "rm"}

\* C2: when the only calls issued against the initially empty store are N <=
\* maxSize set calls with pairwise distinct keys, at whatever moments of each
\* other's progress, no call is ever stuck and once all have returned every
\* one of the N keys is in the stored map with the value it was set to.
C2_NoLostUpdates ==
  (OnlyDistinctSets /\ Len(calls) <= maxSize) =>
     /\ ~AllDone => CanProgress
     /\ AllDone => \A i \in DOMAIN calls :
                     calls[i].key \in DOMAIN PendingMap /\ PendingMap[calls[i].key] = calls[i].val

C2_Witness ==
  /\ OnlyDistinctSets /\ Len(calls) = maxSize /\ AllDone
  /\ \A i \in 2..Len(calls) : calls[i].overlap
  /\ DOMAIN PendingMap = {calls[i].key : i \in DOMAIN calls}

SetRejected(c) == c.ret = <<"boolean", FALSE>> /\ c.post = c.read
SetStored(c) ==
  /\ c.key \in DOMAIN c.post /\ c.post[c.key] = c.val
  /\ c.ret # <<"boolean", FALSE>>
C4_SetRejectedExactlyWhenFullAndNew ==
  \A i \in SetCalls : calls[i].done =>
     IF Cardinality(DOMAIN calls[i].read) >= maxSize /\ calls[i].key \notin DOMAIN calls[i].read
     THEN SetRejected(calls[i])
     ELSE SetStored(calls[i])

\* ------------------------------------------------ processor properties
BufferList == OrEmptyList(cache.buffer)
InBuffer(e) == e \in Range(BufferList)
InPending(e) == \E k \in DOMAIN PendingMap : e \in Range(PendingMap[k])

\* C1: an event that process() took while both stores held fewer than
\* maxSize entries, and whose write to the Buffer Store completed, is from
\* then on in the Buffer Store, or in a batch of the Pending Store, or part
\* of a batch whose dispatch got a success status.
C1_AtLeastOnceUnderCapacity ==
  \A e \in hist.accepted \cap hist.persisted :
     e \in hist.delivered \/ InBuffer(e) \/ InPending(e)

\* C5: at most one pass over the Pending Store runs at any time, and while
\* one runs pendingEventsPromise holds it, so that a call made meanwhile
\* awaits it instead of starting another.
C5_SingleRetryPass ==
  /\ Cardinality(DOMAIN passes) <= 1
  /\ \A p \in DOMAIN passes : pendingEventsPromise = p

\* A pass awaited by two calls, one of them made by the connection listener.
C5_Witness ==
  \E p \in DOMAIN passes :
     /\ Len(passes[p].waiters) >= 2
     /\ "listener" \in Range(passes[p].waiters)
     /\ Range(passes[p].waiters) # {"listener"}

\* C6: when the dispatcher answers the request for a key with status s, the
\* removal of the key from the Pending Store is started if and only if
\* 200 <= s < 400, any other s leaves what the store holds as it is, and the
\* removal, when its write completes, leaves the store without the key.
ResponseStep(r, s) ==
  /\ requests[r].pc = "sent"
  /\ requests' # requests
  /\ Apply(RunMicrotasks(DispatcherCallback(Cur, r, s)))
RemovalStarted(r) ==
  /\ <<"cb", r>> \in DOMAIN ops'
  /\ ops'[<<"cb", r>>].kind = "remove"
  /\ ops'[<<"cb", r>>].key = requests[r].key
RemovalDone(r) ==
  /\ <<"cb", r>> \in DOMAIN ops
  /\ ops[<<"cb", r>>].pc = "put"
  /\ <<"cb", r>> \notin DOMAIN ops'
  /\ lifetime' = lifetime
C6_SuccessFailureClassification ==
  [][/\ \A r \in DOMAIN requests : \A s \in Statuses :
          ResponseStep(r, s) =>
             IF 200 <= s /\ s < 400 THEN RemovalStarted(r)
             ELSE cache' = cache /\ <<"cb", r>> \notin DOMAIN ops'
     /\ \A r \in DOMAIN requests :
          RemovalDone(r) => requests[r].key \notin DOMAIN OrEmptyMap(cache'.pending)]_vars

\* A success was answered and the removal it started is under way.
C6_Witness ==
  \E r \in DOMAIN requests :
     /\ requests[r].pc = "removing"
     /\ <<"cb", r>> \in DOMAIN ops
     /\ requests[r].key \in DOMAIN PendingMap

\* C7: an observation delivered to the listener makes exactly one
\* processPendingEvents() call when the last-known state was unreachable and
\* the observation is reachable; any other observation makes no call and
\* changes nothing but the last-known reachability.
ObservationStep(state) ==
  /\ unsubscribeNetInfo
  /\ Apply(RunMicrotasks(connectionListener(Cur, state)))
C7_ReachabilityTransitions ==
  [][\A state \in NetStates :
       ObservationStep(state) =>
          IF ~isInternetReachable /\ state = "reachable"
          THEN /\ isInternetReachable'
               /\ TotalWaiters(Cur)' = TotalWaiters(Cur) + 1
          ELSE /\ isInternetReachable' = (isInternetReachable /\ state = "reachable")
               /\ UNCHANGED <<cache, lockPromises, ops, calls, queue, unsubscribeNetInfo,
                              pendingEventsPromise, passes, drain, startTask, requests,
                              stopPromise, uuid, nextEvent, lifetime, hist>>]_vars

\* The listener's call, made on a return to reachability, awaits a pass.
C7_Witness ==
  /\ isInternetReachable
  /\ \E p \in DOMAIN passes : "listener" \in Range(passes[p].waiters)

\* C8: the events start() re-enqueues from the Buffer Store are in no batch
\* that the Pending Store holds at that moment.
C8_RecoveryDoesNotDuplicate ==
  [][(startTask.pc = "list" /\ startTask'.pc = "done") =>
        \A e \in Range(hist'.recovered) :
           \A k \in DOMAIN OrEmptyMap(cache'.pending) :
              e \notin Range(OrEmptyMap(cache'.pending)[k])]_vars

\* C9: once the promise returned by stop() is resolved, the events that were
\* in the queue when stop() was called have gone through drainQueue to the
\* dispatcher, and no dispatch is in flight.
C9_StopWaitsForDelivery ==
  (stopPromise = "resolved" /\ hist.stopBuffer # <<>>) =>
     /\ drain.buffer = hist.stopBuffer
     /\ drain.pc \in {"dispatch", "idle"}
     /\ DOMAIN requests = {}

\* C10: with batchSize 2 and the two events 1 and 2 flushed together in the
\* first lifetime: once the batch is persisted and the buffer's operations
\* are over, the Pending Store holds the one entry <<1, 2>> and the Buffer
\* Store is empty; and once the batch is delivered and nothing is in
\* progress any more, both stores are empty.
NothingInProgress ==
  /\ DOMAIN ops = {} /\ DOMAIN requests = {} /\ DOMAIN passes = {}
  /\ drain.pc = "idle" /\ startTask.pc = "done"
C10_FlushScenario ==
  (lifetime = 0 /\ batchSize = 2 /\ drain.buffer = <<1, 2>> /\ hist.recovered = <<>>) =>
     /\ (/\ drain.pc = "dispatch"
         /\ drain.key \in DOMAIN PendingMap
         /\ \A id \in DOMAIN ops : ops[id].cls # "buffer")
          => (PendingMap = (drain.key :> <<1, 2>>) /\ BufferList = <<>>)
     /\ (NothingInProgress /\ hist.delivered = {1, 2})
          => (DOMAIN PendingMap = {} /\ BufferList = <<>>)

\* ------------------------------------------------------- lock discipline
\* The operation that holds the lock of store class c: the one whose
\* promise is first in lockPromises and that is not waiting any more.
HoldsLock(id) ==
  /\ Locked(ops[id].kind)
  /\ lockPromises[ops[id].cls] # <<>>
  /\ Head(lockPromises[ops[id].cls]) = id
  /\ ops[id].pc # "lock"
\* A request to AsyncStorage of the operation is in flight: a read of the
\* blob (get) or a write of it (put, rm).
ReadsBlob(id) == ops[id].pc = "get"
WritesBlob(id) == ops[id].pc \in {"put", "rm"}

\* C11: an operation of a store has a read or a write of the store's blob
\* in flight only while it holds that store's lock, and no write of the blob
\* is in flight while another operation of the same store is inside its
\* read-modify-write cycle.
C11_LockDiscipline ==
  /\ \A id \in DOMAIN ops : (ReadsBlob(id) \/ WritesBlob(id)) => HoldsLock(id)
  /\ \A a, b \in DOMAIN ops :
       (a # b /\ ops[a].cls = ops[b].cls /\ WritesBlob(a)) => ~HoldsLock(b)

\* C12: whenever no operation of the Buffer Store is in progress, no event
\* that the Buffer Store holds is contained in a batch that the Pending Store
\* holds.
C12_BufferHoldsOnlyUnbatchedEvents ==
  (\A id \in DOMAIN ops : ops[id].cls # "buffer") =>
     \A e \in Range(BufferList) : ~InPending(e)

\* C13: a step never changes the batch stored under a key of the Pending
\* Store, and it takes a key out of the store only as the completed write of
\* the removal that the dispatcher's callback started for that key after a
\* success status (the batch then counts as delivered).
RemovalCompletes(k) ==
  \E r \in DOMAIN requests :
     /\ requests[r].pc = "removing"
     /\ requests[r].key = k
     /\ <<"cb", r>> \in DOMAIN ops
     /\ ops[<<"cb", r>>].kind = "remove"
     /\ ops[<<"cb", r>>].pc = "put"
     /\ <<"cb", r>> \notin DOMAIN ops'
     /\ Range(requests[r].event) \subseteq hist.delivered
C13_PendingEntryLeavesOnlyOnSuccess ==
  [][\A k \in DOMAIN PendingMap :
       IF k \in DOMAIN OrEmptyMap(cache'.pending)
       THEN OrEmptyMap(cache'.pending)[k] = PendingMap[k]
       ELSE RemovalCompletes(k)]_vars

\* A batch was persisted, delivered and removed, in a lifetime after a kill.
C13_Witness ==
  /\ lifetime > 0
  /\ uuid > 0
  /\ hist.delivered # {}
  /\ DOMAIN PendingMap = {}
  /\ DOMAIN requests = {}
  /\ DOMAIN ops = {}

\* ------------------------------------------------- Synchronizer properties
Tasks == {id \in DOMAIN ops : ops[id].kind = "getLock"}
\* getLock() has returned to the task and it has not called releaseLock().
InCritical(id) == ops[id].pc \in {"locked", "held"}
Waiting(id) == ops[id].pc = "lock"

\* C14: at most one task is between the return of its getLock() and its
\* releaseLock().
C14_MutualExclusion == Cardinality({id \in Tasks : InCritical(id)}) <= 1

\* One task has the lock while two others wait for it.
C14_Witness ==
  /\ Cardinality({id \in Tasks : ops[id].pc = "held"}) = 1
  /\ Cardinality({id \in Tasks : Waiting(id)}) >= 2

\* C15: the lock is granted in the order of the getLock() calls: when a
\* task is granted the lock, every other task that has called getLock() and
\* not released yet called after it; and a releaseLock() wakes the waiting
\* task that called first and no other (nobody when no task waits).
GrantedInStep(b) ==
  /\ b \notin DOMAIN ops \/ ops[b].pc = "lock"
  /\ b \in DOMAIN ops'
  /\ ops'[b].pc = "locked"
ReleasedInStep(a) == ops[a].pc = "held" /\ a \notin DOMAIN ops'
C15_FifoOrder ==
  [][/\ \A b \in {id \in DOMAIN ops' : ops'[id].kind = "getLock"} :
          GrantedInStep(b) =>
             \A a \in {id \in DOMAIN ops' : ops'[id].kind = "getLock"} \ {b} : a[2] > b[2]
     /\ \A a \in Tasks :
          ReleasedInStep(a) =>
             LET W == {b \in Tasks : Waiting(b)}
             IN \A b \in W : ops'[b].pc = IF \A c \in W : b[2] <= c[2] THEN "locked" ELSE "lock"]_vars

\* A task that called getLock() between a release and the resumption of the
\* task that the release woke has the lock.
C15_Witness ==
  \E id \in Tasks : ops[id].pc = "held" /\ calls[id[2]].key = 1

\* C16: when every task that was granted the lock goes on to release it, a
\* task that waits in getLock() is eventually granted the lock.
C16_DeadlockFreedom ==
  \A i \in 1..MaxTasks :
     (TaskId(i) \in DOMAIN ops /\ ops[TaskId(i)].pc = "lock")
        ~> (TaskId(i) \in DOMAIN ops /\ ops[TaskId(i)].pc = "held")

\* The last of the tasks, which had to wait behind two others, has the lock.
C16_Witness ==
  /\ Len(calls) = MaxTasks
  /\ TaskId(MaxTasks) \in DOMAIN ops
  /\ ops[TaskId(MaxTasks)].pc = "held"
  /\ calls[MaxTasks].overlap

\* ------------------------------------------------------ retry pass properties
PassRequest(p) == <<"pass", p>>
\* The request of pass p in the next state is the dispatch of its j-th entry.
DispatchedNow(p, j) ==
  /\ PassRequest(p) \in DOMAIN requests'
  /\ requests'[PassRequest(p)].pc = "sent"
  /\ requests'[PassRequest(p)].key = passes'[p].entries[j][1]
  /\ requests'[PassRequest(p)].event = passes'[p].entries[j][2]
\* The pass reads the Pending Store in this step: it takes every entry of the
\* store and dispatches the first one, or ends when there is none.
PassReads(p) ==
  LET es == objectEntries(PendingMap)
  IN IF es = <<>> THEN p \notin DOMAIN passes'
     ELSE /\ p \in DOMAIN passes'
          /\ passes'[p].entries = es
          /\ passes'[p].i = 1
          /\ DispatchedNow(p, 1)
PassStays(p) ==
  /\ p \in DOMAIN passes'
  /\ passes'[p].i = passes[p].i
  /\ passes'[p].entries = passes[p].entries
  /\ PassRequest(p) \in DOMAIN requests'
  /\ requests'[PassRequest(p)].key = requests[PassRequest(p)].key
\* The pass goes on to its next entry, or ends after the last one.
PassAdvances(p) ==
  IF passes[p].i < Len(passes[p].entries)
  THEN /\ p \in DOMAIN passes'
       /\ passes'[p].entries = passes[p].entries
       /\ passes'[p].i = passes[p].i + 1
       /\ DispatchedNow(p, passes[p].i + 1)
  ELSE p \notin DOMAIN passes'
\* The dispatch in flight is over in this step: a failure status is reported,
\* or the removal that followed a success status completes.
DispatchOver(r) ==
  \/ /\ requests[r].pc = "sent"
     /\ \E s \in Statuses : ~(200 <= s /\ s < 400) /\ ResponseStep(r, s)
  \/ /\ requests[r].pc = "removing"
     /\ RemovalDone(r)
     /\ requests[r].key \notin DOMAIN OrEmptyMap(cache'.pending)

\* C17: a pass takes the entries the Pending Store holds when it reads it and
\* dispatches them one at a time, each once, in order: it has exactly the
\* dispatch of its current entry in flight, and it goes on to the next entry
\* (or ends) only in the step in which that dispatch reports a failure status
\* or the removal after a success status completes.
C17_PassDispatchesSequentially ==
  [][\A p \in DOMAIN passes :
       IF passes[p].pc = "get"
       THEN \/ p \in DOMAIN passes' /\ passes'[p].pc = "get"
            \/ PassReads(p)
       ELSE /\ PassRequest(p) \in DOMAIN requests
            /\ requests[PassRequest(p)].key = passes[p].entries[passes[p].i][1]
            /\ \/ PassStays(p)
               \/ PassAdvances(p) /\ DispatchOver(PassRequest(p))]_vars

\* A pass over two entries has dispatched the second one.
C17_Witness ==
  \E p \in DOMAIN passes :
     /\ Len(passes[p].entries) = 2
     /\ passes[p].i = 2
     /\ PassRequest(p) \in DOMAIN requests
     /\ requests[PassRequest(p)].key = passes[p].entries[2][1]

\* C18: pendingEventsPromise never holds a pass that has completed (it is
\* null whenever no pass runs), and a processPendingEvents() call made when
\* no pass runs, here the listener's on a return to reachability, starts a
\* pass of its own whose read of the Pending Store is still to come.
FreshPassStarted ==
  \E p \in DOMAIN passes' :
     /\ pendingEventsPromise' = p
     /\ passes'[p].pc = "get"
     /\ passes'[p].waiters = <<"listener">>
     /\ PassRequest(p) \in DOMAIN ops'
     /\ ops'[PassRequest(p)].kind = "getEventsMap"
     /\ ops'[PassRequest(p)].pc = "get"
C18_MarkerClearedAfterPass ==
  [][/\ pendingEventsPromise' # 0 => pendingEventsPromise' \in DOMAIN passes'
     /\ (ObservationStep("reachable") /\ ~isInternetReachable /\ DOMAIN passes = {})
          => FreshPassStarted]_vars

\* After an earlier pass has completed (a batch was persisted since), a new
\* pass called by the listener is under way over the entry it found.
C18_Witness ==
  \E p \in DOMAIN passes :
     /\ pendingEventsPromise = p
     /\ passes[p].entries # <<>>
     /\ passes[p].waiters # <<>>
     /\ passes[p].waiters[1] = "listener"
     /\ drain.pc = "idle"

\* C19: at most one dispatch is in flight for any key of the Pending Store.
C19_OneDispatchPerKey ==
  \A r1, r2 \in DOMAIN requests :
     requests[r1].key = requests[r2].key => r1 = r2

\* C20: once start() has re-enqueued the events it recovered from the Buffer
\* Store and every store operation has completed, with no flush and no new
\* event since, the Buffer Store holds as many entries as start() found.
C20_StartKeepsBufferSize ==
  ( /\ startTask.pc = "done"
    /\ hist.recovered # <<>>
    /\ queue.buffer = hist.recovered
    /\ ~queue.flushing
    /\ drain.pc = "idle"
    /\ DOMAIN ops = {} ) =>
       Len(BufferList) = Len(hist.recovered)

====
